---- MODULE Spec2Model ----
(***************************************************************************)
(* Model of pytorch-ie-hydra-template:                                     *)
(*   - SimpleTransformerTextClassificationTaskModule                       *)
(*       (src/src/taskmodules/simple_transformer_text_classification.py)   *)
(*   - train()  (src/src/training_pipeline.py)                             *)
(*   - test()   (src/src/testing_pipeline.py)                              *)
(*                                                                         *)
(* Conventions                                                             *)
(*   - a Python str is the sequence of its code points, so that sorted()   *)
(*     orders labels the way Python does ("O" = <<79>> sorts before "cat") *)
(*   - a Python dict is the sequence of its <<key, value>> items in        *)
(*     insertion order                                                     *)
(*   - Optional[T] is <<>> for None and <<v>> for a value v                *)
(***************************************************************************)
EXTENDS Integers, Sequences, FiniteSets, TLC

\* ------------------------------------------------------------------ bounds
MaxDocs == 3
MaxBatch == 3
MaxTokens == 2
NumClasses == 3
MaxSeed == 1
MaxEpochs == 2

\* ------------------------------------------------------------ label strings
LabelO == <<79>>
LabelA == <<65>>
LabelCat == <<99, 97, 116>>
LabelDog == <<100, 111, 103>>
LabelUniverse == {LabelO, LabelA, LabelCat, LabelDog}

None == <<>>
Some(v) == <<v>>

\* Python's str.__lt__: code point by code point, a proper prefix is smaller
RECURSIVE StrLess(_, _)
StrLess(a, b) ==
    IF a = <<>> THEN b # <<>>
    ELSE IF b = <<>> THEN FALSE
    ELSE IF a[1] # b[1] THEN a[1] < b[1]
    ELSE StrLess(Tail(a), Tail(b))

\* sorted(labels) for a set of str
RECURSIVE sorted(_)
sorted(S) ==
    IF S = {} THEN <<>>
    ELSE LET m == CHOOSE x \in S : \A y \in S \ {x} : StrLess(x, y)
         IN  <<m>> \o sorted(S \ {m})

\* ------------------------------------------------------------------- dicts
DictKeys(d) == {d[i][1] : i \in 1..Len(d)}
DictValues(d) == {d[i][2] : i \in 1..Len(d)}
DictHas(d, k) == k \in DictKeys(d)
DictGet(d, k) == d[CHOOSE i \in 1..Len(d) : d[i][1] = k][2]
\* d[k] = v: an existing key keeps its position, a new key is appended
DictSet(d, k, v) ==
    IF DictHas(d, k)
    THEN [i \in 1..Len(d) |-> IF d[i][1] = k THEN <<k, v>> ELSE d[i]]
    ELSE Append(d, <<k, v>>)

\* {v: k for k, v in d.items()}
RECURSIVE InvertFrom(_, _)
InvertFrom(d, acc) ==
    IF d = <<>> THEN acc
    ELSE InvertFrom(Tail(d), DictSet(acc, d[1][2], d[1][1]))

Invert(d) == InvertFrom(d, <<>>)

\* --------------------------------------------------------------- documents
Label(l, s) == [label |-> l, score |-> s]
GoldScore == <<1, 1>>
\* a TextDocumentWithLabel; its label layer is a list that may be empty
TextDocumentWithLabel(layer) == [label |-> layer]
UnlabelledDocument == TextDocumentWithLabel(<<>>)
LabelledDocuments == {TextDocumentWithLabel(<<Label(l, GoldScore)>>) : l \in LabelUniverse}
Documents == {UnlabelledDocument} \cup LabelledDocuments
SeqUpTo(S, n) == UNION {[1..k -> S] : k \in 0..n}
\* corpora of labelled documents, and corpora holding one without a label
Corpora ==
    SeqUpTo(LabelledDocuments, MaxDocs) \cup
    {<<UnlabelledDocument>>} \cup
    {<<d, UnlabelledDocument>> : d \in LabelledDocuments}

\* ------------------------------------------------------------- task module
\* label_to_id arguments a caller may hand to the constructor
LabelToIdArgs ==
    { None,
      Some(<<>>),
      Some(<<<<LabelA, 1>>, <<LabelCat, 2>>, <<LabelO, 0>>>>),
      Some(<<<<LabelCat, 1>>, <<LabelDog, 1>>>>) }

\* __init__: self.label_to_id = label_to_id or {}
init_label_to_id(arg) == IF arg = None \/ arg = Some(<<>>) THEN <<>> ELSE arg[1]

\* __init__: self.id_to_label = {v: k for k, v in self.label_to_id.items()}
init_id_to_label_empty(l2i) == <<>>
init_id_to_label(l2i) == Invert(l2i)

\* prepare: the set of labels collected by the loop
prepare_labels(documents) == {documents[i].label[1].label : i \in 1..Len(documents)}

\* prepare: document.label[0] raises IndexError on an empty label layer
prepare_raises(documents) == \E i \in 1..Len(documents) : documents[i].label = <<>>

\* prepare: {label: i + 1 for i, label in enumerate(sorted(labels))}; ["O"] = 0
prepare_label_to_id(labels) ==
    LET s == sorted(labels)
        m == [i \in 1..Len(s) |-> <<s[i], i>>]
    IN  DictSet(m, LabelO, 0)

\* prepare: self.id_to_label = {v: k for k, v in self.label_to_id.items()}
prepare_id_to_label(l2i) == Invert(l2i)

\* _config: super()._config() returns the saved constructor arguments
base_config(hp) == hp

\* _config: config["label_to_id"] = self.label_to_id
taskmodule_config_stale(hp, l2i) == base_config(hp)
taskmodule_config(hp, l2i) == [base_config(hp) EXCEPT !.label_to_id = Some(l2i)]

\* encode_target: task_encoding.document.label[0], then self.label_to_id[...]
encode_target_exc(l2i, document) ==
    IF document.label = <<>> THEN "IndexError"
    ELSE IF ~DictHas(l2i, document.label[1].label) THEN "KeyError"
    ELSE ""
encode_target(l2i, document) == DictGet(l2i, document.label[1].label)

\* ---------------------------------------------------------- task encodings
\* inputs: the number of tokens of the unpadded tokenizer output
TaskEncoding(inputs, targets) == [inputs |-> inputs, targets |-> targets]
has_targets(te) == te.targets # None
TargetIds == 0..1
TaskEncodings ==
    {TaskEncoding(n, t) : n \in 1..MaxTokens, t \in {None} \cup {Some(i) : i \in TargetIds}}
Batches == SeqUpTo(TaskEncodings, MaxBatch) \ {<<>>}

MaxOf(S) == CHOOSE x \in S : \A y \in S : y <= x

\* collate: tokenizer.pad(..., padding=True) pads every input to the longest
pad(input_features) ==
    [i \in 1..Len(input_features) |->
        MaxOf({input_features[j] : j \in 1..Len(input_features)})]

\* collate: the branch on the targets
collate_has_targets(task_encodings) == has_targets(task_encodings[1])

\* collate: torch.tensor([te.targets ...]) fails on an encoding without target
collate_exc(task_encodings) ==
    IF /\ collate_has_targets(task_encodings)
       /\ \E i \in 1..Len(task_encodings) : ~has_targets(task_encodings[i])
    THEN "Exception"
    ELSE ""

collate(task_encodings) ==
    LET inputs == pad([i \in 1..Len(task_encodings) |-> task_encodings[i].inputs])
        targets == IF collate_has_targets(task_encodings)
                   THEN Some([i \in 1..Len(task_encodings) |-> task_encodings[i].targets[1]])
                   ELSE None
    IN  <<inputs, targets>>

\* ------------------------------------------------------------ model output
LogitValues == {0, 1}
LogitRows == [1..NumClasses -> LogitValues]
Mirror(r) == [i \in 1..Len(r) |-> r[Len(r) + 1 - i]]
\* batches of one row, and batches of two rows: a row and its mirror image
ModelOutputs == {<<r>> : r \in LogitRows} \cup {<<r, Mirror(r)>> : r \in LogitRows}

RECURSIVE Pow2(_)
Pow2(n) == IF n = 0 THEN 1 ELSE 2 * Pow2(n - 1)

RECURSIVE SumSeq(_)
SumSeq(s) == IF s = <<>> THEN 0 ELSE s[1] + SumSeq(Tail(s))

\* logits.softmax(dim=-1): row of fractions <<numerator, denominator>>
\* (exponentials to the base 2: same order and normalisation as base e)
softmax(row) ==
    LET w == [i \in 1..Len(row) |-> Pow2(row[i])]
    IN  [i \in 1..Len(row) |-> <<w[i], SumSeq(w)>>]

\* np.argmax: the 0-based index of the first maximum
argmin(probs) ==
    (CHOOSE i \in 1..Len(probs) :
        /\ \A j \in 1..Len(probs) : probs[i][1] <= probs[j][1]
        /\ \A j \in 1..(i - 1) : probs[j][1] > probs[i][1]) - 1
argmax(probs) ==
    (CHOOSE i \in 1..Len(probs) :
        /\ \A j \in 1..Len(probs) : probs[j][1] <= probs[i][1]
        /\ \A j \in 1..(i - 1) : probs[j][1] < probs[i][1]) - 1

TaskOutput(l, p) == [label |-> l, probability |-> p]

\* unbatch_output: self.id_to_label[label_id] raises KeyError on an unknown id
unbatch_output_exc(i2l, logits) ==
    IF \E i \in 1..Len(logits) : ~DictHas(i2l, argmax(softmax(logits[i])))
    THEN "KeyError"
    ELSE ""

unbatch_output(i2l, logits) ==
    [idx \in 1..Len(logits) |->
        LET probabilities == softmax(logits[idx])
            label_id == argmax(probabilities)
        IN  TaskOutput(DictGet(i2l, label_id), probabilities[label_id + 1])]

\* create_annotations_from_output: the sequence of the pairs it yields
create_annotations_from_output(task_outputs) ==
    << <<"label", Label(task_outputs.label, task_outputs.probability)>> >>

\* ------------------------------------------------------------- file paths
\* a path is the sequence of its components; an absolute path starts with "/"
OriginalCwd == <<"/", "launch">>
RunDir == <<"/", "launch", "logs", "run">>
RelativePath == <<"models">>
AbsolutePath == <<"/", "srv", "models">>

\* os.path.isabs
isabs(path) == path # <<>> /\ path[1] = "/"

\* os.path.join(a, b)
join(a, b) == IF isabs(b) THEN b ELSE a \o b

\* where the file system puts a path handed to save_pretrained()
Resolve(path, workdir) == join(workdir, path)

\* ------------------------------------------------------------ configuration
\* truth value of config.get(key) for an optional bool, int, str
TruthyBool(o) == o # None /\ o[1]
TruthyInt(o) == o # None /\ o[1] # 0
TruthyStr(o) == o # None /\ o[1] # ""
TruthyPath(o) == o # None /\ o[1] # <<>>

OptionalFlags == {None, Some(FALSE), Some(TRUE)}
Seeds == {None} \cup {Some(n) : n \in 0..MaxSeed}
MetricNames == {None, Some(""), Some("val/acc")}
Paths == {RelativePath, AbsolutePath}
TrainSplits ==
    { <<TextDocumentWithLabel(<<Label(LabelDog, GoldScore)>>),
        TextDocumentWithLabel(<<Label(LabelCat, GoldScore)>>),
        TextDocumentWithLabel(<<Label(LabelO, GoldScore)>>)>>,
      <<TextDocumentWithLabel(<<Label(LabelCat, GoldScore)>>),
        TextDocumentWithLabel(<<Label(LabelA, GoldScore)>>)>>,
      <<TextDocumentWithLabel(<<Label(LabelA, GoldScore)>>), UnlabelledDocument>> }

\* the configuration tree handed to train()
TrainConfigs ==
    [ entry : {"train"},
      seed : Seeds,
      resume_from_checkpoint : {None, Some(RelativePath), Some(AbsolutePath)},
      fast_dev_run : OptionalFlags,
      train_split : TrainSplits,
      save_dir : Paths,
      push_to_hub : BOOLEAN,
      train : OptionalFlags,
      test : {None, Some(TRUE)},
      optimized_metric : MetricNames,
      ckpt_path : {AbsolutePath} ]

\* the configuration tree handed to test()
TestConfigs ==
    [ entry : {"test"},
      seed : Seeds,
      resume_from_checkpoint : {None},
      fast_dev_run : {None},
      train_split : {<<>>},
      save_dir : {AbsolutePath},
      push_to_hub : {FALSE},
      train : {None},
      test : {None},
      optimized_metric : {None},
      ckpt_path : Paths ]

\* train: 'if config.get("seed")' (also test, line 27)
seed_if_truthy(cfg) == TruthyInt(cfg.seed)

\* train: save_dir as normalised into config.save_dir
normalized_save_dir(save_dir) ==
    IF ~isabs(save_dir) THEN join(OriginalCwd, save_dir) ELSE save_dir

\* train: the save_directory handed to taskmodule.save_pretrained()
taskmodule_save_directory(launch_save_dir, config_save_dir) == launch_save_dir

\* train: optimized_metric and optimized_metric not in trainer.callback_metrics
metric_never_missing(cfg, callback_metrics) == FALSE
metric_missing(cfg, callback_metrics) ==
    /\ TruthyStr(cfg.optimized_metric)
    /\ ~DictHas(callback_metrics, cfg.optimized_metric[1])

\* train: score = trainer.callback_metrics.get(optimized_metric)
score_of(cfg, callback_metrics) ==
    IF cfg.optimized_metric # None /\ DictHas(callback_metrics, cfg.optimized_metric[1])
    THEN Some(DictGet(callback_metrics, cfg.optimized_metric[1]))
    ELSE None

\* train: the ckpt_path handed to trainer.test()
test_ckpt_path_always_best(cfg) == Some("best")
test_ckpt_path(cfg) ==
    IF ~TruthyBool(cfg.train) \/ TruthyBool(cfg.fast_dev_run) THEN None ELSE Some("best")

\* train: 'if not config.trainer.get("fast_dev_run") and config.get("train")'
save_best_model(cfg) == ~TruthyBool(cfg.fast_dev_run) /\ TruthyBool(cfg.train)

\* train: load_from_checkpoint() is a classmethod whose result is dropped, so
\* model.save_pretrained() writes the weights the model object holds
saved_model_weights(in_memory, best_checkpoint) == in_memory

VARIABLES
    hparams,        \* arguments saved by save_hyperparameters()
    label_to_id,    \* self.label_to_id
    id_to_label,    \* self.id_to_label
    labels,         \* Optional: the label set collected by the latest prepare()
    last,           \* the latest call on the task module: op, arg, ret, exc
    launch_config,  \* the configuration as handed to train() / test()
    config,         \* the configuration object, which the orchestrators rewrite
    cwd,            \* the working directory of the process
    pc,             \* the orchestrator's position
    calls,          \* the calls made to the collaborators so far, in order
    weights,        \* the epoch whose weights the model object holds (0: fresh)
    trainer,        \* callback_metrics and checkpoint_callback.best_model_path
    score,          \* train()'s local variable score
    result          \* Optional: what the orchestrator returned or raised

tmvars == <<hparams, label_to_id, id_to_label, labels, last>>
runvars == <<launch_config, config, cwd, pc, calls, weights, trainer, score, result>>
vars == <<tmvars, runvars>>

Call(op, arg, ret, exc) == [op |-> op, arg |-> arg, ret |-> ret, exc |-> exc]

\* __init__ with the given label_to_id argument
Construct(arg) ==
    /\ hparams = [label_to_id |-> arg]
    /\ label_to_id = init_label_to_id(arg)
    /\ id_to_label = init_id_to_label(init_label_to_id(arg))
    /\ labels = None
    /\ last = Call("__init__", <<>>, <<>>, "")

FreshTrainer == [callback_metrics |-> <<>>, best_model_path |-> None]

\* no orchestrator is running
RunIdle ==
    /\ launch_config \in {c \in TestConfigs : c.seed = None /\ c.ckpt_path = AbsolutePath}
    /\ config = launch_config
    /\ cwd = OriginalCwd
    /\ pc = "idle"
    /\ calls = <<>>
    /\ weights = 0
    /\ trainer = FreshTrainer
    /\ score = None
    /\ result = None

InitTM == RunIdle /\ \E arg \in LabelToIdArgs : Construct(arg)

Prepare(documents) ==
    IF prepare_raises(documents)
    THEN /\ last' = Call("prepare", <<>>, <<>>, "IndexError")
         /\ UNCHANGED <<hparams, label_to_id, id_to_label, labels>>
    ELSE LET ls == prepare_labels(documents)
             l2i == prepare_label_to_id(ls)
         IN  /\ labels' = Some(ls)
             /\ label_to_id' = l2i
             /\ id_to_label' = prepare_id_to_label(l2i)
             /\ last' = Call("prepare", <<>>, <<>>, "")
             /\ UNCHANGED hparams

EncodeTarget(document) ==
    /\ last' = IF encode_target_exc(label_to_id, document) # ""
               THEN Call("encode_target", document, <<>>,
                         encode_target_exc(label_to_id, document))
               ELSE Call("encode_target", document,
                         encode_target(label_to_id, document), "")
    /\ UNCHANGED <<hparams, label_to_id, id_to_label, labels>>

Collate(task_encodings) ==
    /\ last' = IF collate_exc(task_encodings) # ""
               THEN Call("collate", task_encodings, <<>>, collate_exc(task_encodings))
               ELSE Call("collate", task_encodings, collate(task_encodings), "")
    /\ UNCHANGED <<hparams, label_to_id, id_to_label, labels>>

UnbatchOutput(logits) ==
    /\ last' = IF unbatch_output_exc(id_to_label, logits) # ""
               THEN Call("unbatch_output", logits, <<>>,
                         unbatch_output_exc(id_to_label, logits))
               ELSE Call("unbatch_output", logits, unbatch_output(id_to_label, logits), "")
    /\ UNCHANGED <<hparams, label_to_id, id_to_label, labels>>

\* decode: each task output of the batch just unbatched is turned into annotations
CreateAnnotationsFromOutput(idx) ==
    /\ last.op = "unbatch_output"
    /\ last.exc = ""
    /\ idx \in 1..Len(last.ret)
    /\ last' = Call("create_annotations_from_output",
                    [logits |-> last.arg[idx], task_outputs |-> last.ret[idx]],
                    create_annotations_from_output(last.ret[idx]), "")
    /\ UNCHANGED <<hparams, label_to_id, id_to_label, labels>>

\* save_pretrained() dumps _config(); from_pretrained() passes its entries to
\* the constructor of a new task module
FromPretrained ==
    /\ LET cfg == taskmodule_config(hparams, label_to_id)
           l2i == init_label_to_id(cfg.label_to_id)
       IN  last' = Call("from_pretrained", cfg,
                        [label_to_id |-> l2i, id_to_label |-> init_id_to_label(l2i)], "")
    /\ UNCHANGED <<hparams, label_to_id, id_to_label, labels>>

\* the vocabulary and its persistence
NextTM ==
    \/ \E documents \in Corpora : Prepare(documents)
    \/ \E document \in Documents : EncodeTarget(document)
    \/ FromPretrained

SpecTM == InitTM /\ [][NextTM /\ UNCHANGED runvars]_vars

\* encoding targets and decoding model outputs with a prepared vocabulary
InitCodec == RunIdle /\ Construct(None)

NextCodec ==
    \/ \E documents \in Corpora : Prepare(documents)
    \/ \E document \in Documents : EncodeTarget(document)
    \/ \E logits \in ModelOutputs : UnbatchOutput(logits)
    \/ \E idx \in 1..2 : CreateAnnotationsFromOutput(idx)

SpecCodec == InitCodec /\ [][NextCodec /\ UNCHANGED runvars]_vars

\* collate() reads no state of the task module besides the padding options
InitCollate == RunIdle /\ Construct(None)

NextCollate == \E task_encodings \in Batches : Collate(task_encodings)

SpecCollate == InitCollate /\ [][NextCollate /\ UNCHANGED runvars]_vars

\* ============================================================ orchestrators
CallTo(fn, args) == [fn |-> fn, args |-> args]
Returned(value) == [kind |-> "return", exc |-> "", value |-> value]
Raised(exc) == [kind |-> "raise", exc |-> exc, value |-> None]
CallbackMetrics == {<<>>, <<<<"val/acc", 1>>>>}

Init ==
    /\ launch_config \in TrainConfigs \cup TestConfigs
    /\ config = launch_config
    /\ cwd \in {OriginalCwd, RunDir}
    /\ pc = IF launch_config.entry = "train" THEN "train_seed" ELSE "test_seed"
    /\ calls = <<>>
    /\ weights = 0
    /\ trainer = FreshTrainer
    /\ score = None
    /\ result = None
    /\ hparams = [label_to_id |-> None]
    /\ label_to_id = <<>>
    /\ id_to_label = <<>>
    /\ labels = None
    /\ last = Call("", <<>>, <<>>, "")

\* train, lines 26-28
TrainSeed ==
    /\ pc = "train_seed"
    /\ calls' = IF seed_if_truthy(config)
                THEN Append(calls, CallTo("seed_everything",
                                          [seed |-> config.seed[1], workers |-> TRUE]))
                ELSE calls
    /\ pc' = "train_resume"
    /\ UNCHANGED <<tmvars, launch_config, config, cwd, weights, trainer, score, result>>

\* train, lines 30-35
TrainResolveCkpt ==
    /\ pc = "train_resume"
    /\ LET ckpt_path == config.resume_from_checkpoint
       IN  config' = IF TruthyPath(ckpt_path) /\ ~isabs(ckpt_path[1])
                     THEN [config EXCEPT !.resume_from_checkpoint =
                                            Some(join(OriginalCwd, ckpt_path[1]))]
                     ELSE config
    /\ pc' = "train_taskmodule"
    /\ UNCHANGED <<tmvars, launch_config, cwd, calls, weights, trainer, score, result>>

\* train, lines 37-46: the dataset and the task module are instantiated
TrainInstantiateTaskmodule ==
    /\ pc = "train_taskmodule"
    /\ calls' = calls \o <<CallTo("instantiate", [what |-> "dataset"]),
                           CallTo("instantiate", [what |-> "taskmodule"])>>
    /\ hparams' = [label_to_id |-> None]
    /\ label_to_id' = init_label_to_id(None)
    /\ id_to_label' = init_id_to_label(init_label_to_id(None))
    /\ last' = Call("__init__", <<>>, <<>>, "")
    /\ pc' = "train_prepare"
    /\ UNCHANGED <<labels, launch_config, config, cwd, weights, trainer, score, result>>

\* train, lines 48-50: taskmodule.prepare(dataset[config.train_split])
TrainPrepare ==
    /\ pc = "train_prepare"
    /\ Prepare(config.train_split)
    /\ calls' = Append(calls, CallTo("prepare", [documents |-> config.train_split]))
    /\ IF prepare_raises(config.train_split)
       THEN pc' = "done" /\ result' = Some(Raised("IndexError"))
       ELSE pc' = "train_trainer" /\ UNCHANGED result
    /\ UNCHANGED <<launch_config, config, cwd, weights, trainer, score>>

\* train, lines 52-84: data module, model, callbacks, loggers and trainer
TrainInstantiateTrainer ==
    /\ pc = "train_trainer"
    /\ calls' = calls \o <<CallTo("instantiate", [what |-> "datamodule"]),
                           CallTo("instantiate", [what |-> "model"]),
                           CallTo("instantiate", [what |-> "trainer"])>>
    /\ weights' = 0
    /\ trainer' = FreshTrainer
    /\ pc' = "train_log_hyperparameters"
    /\ UNCHANGED <<tmvars, launch_config, config, cwd, score, result>>

\* train, lines 86-96
TrainLogHyperparameters ==
    /\ pc = "train_log_hyperparameters"
    /\ calls' = Append(calls, CallTo("log_hyperparameters", <<>>))
    /\ pc' = "train_save_taskmodule"
    /\ UNCHANGED <<tmvars, launch_config, config, cwd, weights, trainer, score, result>>

\* train, lines 98-104
TrainSaveTaskmodule ==
    /\ pc = "train_save_taskmodule"
    /\ config' = [config EXCEPT !.save_dir = normalized_save_dir(config.save_dir)]
    /\ LET save_directory == taskmodule_save_directory(config.save_dir, config'.save_dir)
       IN  calls' = Append(calls, CallTo("save_pretrained",
                        [what |-> "taskmodule",
                         save_directory |-> save_directory,
                         location |-> Resolve(save_directory, cwd),
                         push_to_hub |-> config.push_to_hub,
                         content |-> taskmodule_config(hparams, label_to_id)]))
    /\ pc' = "train_fit"
    /\ UNCHANGED <<tmvars, launch_config, cwd, weights, trainer, score, result>>

\* train, lines 106-109: trainer.fit() trains for some epochs, records the
\* callback metrics and, unless fast_dev_run, the best checkpoint
TrainFit ==
    /\ pc = "train_fit"
    /\ IF TruthyBool(config.train)
       THEN \E n \in 1..MaxEpochs, b \in 1..MaxEpochs, m \in CallbackMetrics :
              /\ b <= n
              /\ TruthyBool(config.fast_dev_run) => (n = 1 /\ b = 1)
              /\ weights' = n
              /\ trainer' = [callback_metrics |-> m,
                             best_model_path |-> IF TruthyBool(config.fast_dev_run)
                                                 THEN None ELSE Some(b)]
              /\ calls' = Append(calls, CallTo("fit", <<>>))
       ELSE UNCHANGED <<weights, trainer, calls>>
    /\ pc' = "train_metric"
    /\ UNCHANGED <<tmvars, launch_config, config, cwd, score, result>>

\* train, lines 111-118
TrainMetric ==
    /\ pc = "train_metric"
    /\ IF metric_missing(config, trainer.callback_metrics)
       THEN /\ result' = Some(Raised("Exception"))
            /\ pc' = "done"
            /\ UNCHANGED score
       ELSE /\ score' = score_of(config, trainer.callback_metrics)
            /\ pc' = "train_test"
            /\ UNCHANGED result
    /\ UNCHANGED <<tmvars, launch_config, config, cwd, calls, weights, trainer>>

\* train, lines 120-126: trainer.test() with ckpt_path "best" loads the best
\* checkpoint into the model before evaluating it, and fails without one
TrainTest ==
    /\ pc = "train_test"
    /\ IF TruthyBool(config.test)
       THEN LET ckpt_path == test_ckpt_path(config)
                no_checkpoint == ckpt_path # None /\ trainer.best_model_path = None
                evaluated == IF ckpt_path = None \/ no_checkpoint THEN weights
                             ELSE trainer.best_model_path[1]
            IN  /\ calls' = Append(calls, CallTo("test",
                                [ckpt_path |-> ckpt_path, weights |-> evaluated]))
                /\ weights' = evaluated
                /\ IF no_checkpoint
                   THEN pc' = "done" /\ result' = Some(Raised("MisconfigurationException"))
                   ELSE pc' = "train_finish" /\ UNCHANGED result
       ELSE /\ pc' = "train_finish"
            /\ UNCHANGED <<calls, weights, result>>
    /\ UNCHANGED <<tmvars, launch_config, config, cwd, trainer, score>>

\* train, lines 128-138
TrainFinish ==
    /\ pc = "train_finish"
    /\ calls' = Append(calls, CallTo("finish", <<>>))
    /\ pc' = "train_save_model"
    /\ UNCHANGED <<tmvars, launch_config, config, cwd, weights, trainer, score, result>>

\* train, lines 140-145
TrainSaveModel ==
    /\ pc = "train_save_model"
    /\ IF save_best_model(config)
       THEN LET save_directory ==
                    taskmodule_save_directory(launch_config.save_dir, config.save_dir)
            IN  calls' = calls \o
                  <<CallTo("load_from_checkpoint", [path |-> trainer.best_model_path]),
                    CallTo("save_pretrained",
                        [what |-> "model",
                         save_directory |-> save_directory,
                         location |-> Resolve(save_directory, cwd),
                         push_to_hub |-> config.push_to_hub,
                         content |-> saved_model_weights(weights,
                                                         trainer.best_model_path[1])])>>
       ELSE UNCHANGED calls
    /\ pc' = "train_return"
    /\ UNCHANGED <<tmvars, launch_config, config, cwd, weights, trainer, score, result>>

\* train, lines 147-148
TrainReturn ==
    /\ pc = "train_return"
    /\ result' = Some(Returned(score))
    /\ pc' = "done"
    /\ UNCHANGED <<tmvars, launch_config, config, cwd, calls, weights, trainer, score>>

\* test, lines 26-28
TestSeed ==
    /\ pc = "test_seed"
    /\ calls' = IF seed_if_truthy(config)
                THEN Append(calls, CallTo("seed_everything",
                                          [seed |-> config.seed[1], workers |-> TRUE]))
                ELSE calls
    /\ pc' = "test_ckpt_path"
    /\ UNCHANGED <<tmvars, launch_config, config, cwd, weights, trainer, score, result>>

\* test, lines 30-32
TestResolveCkpt ==
    /\ pc = "test_ckpt_path"
    /\ config' = IF ~isabs(config.ckpt_path)
                 THEN [config EXCEPT !.ckpt_path = join(OriginalCwd, config.ckpt_path)]
                 ELSE config
    /\ pc' = "test_instantiate"
    /\ UNCHANGED <<tmvars, launch_config, cwd, calls, weights, trainer, score, result>>

\* test, lines 34-66: dataset, task module, data module, model, loggers, trainer
TestInstantiate ==
    /\ pc = "test_instantiate"
    /\ calls' = calls \o <<CallTo("instantiate", [what |-> "dataset"]),
                           CallTo("instantiate", [what |-> "taskmodule"]),
                           CallTo("instantiate", [what |-> "datamodule"]),
                           CallTo("instantiate", [what |-> "model"]),
                           CallTo("instantiate", [what |-> "trainer"])>>
    /\ hparams' = [label_to_id |-> None]
    /\ label_to_id' = init_label_to_id(None)
    /\ id_to_label' = init_id_to_label(init_label_to_id(None))
    /\ last' = Call("__init__", <<>>, <<>>, "")
    /\ weights' = 0
    /\ trainer' = FreshTrainer
    /\ pc' = "test_log_hyperparams"
    /\ UNCHANGED <<labels, launch_config, config, cwd, score, result>>

\* test, lines 68-69
TestLogHyperparams ==
    /\ pc = "test_log_hyperparams"
    /\ calls' = Append(calls, CallTo("log_hyperparams", [ckpt_path |-> config.ckpt_path]))
    /\ pc' = "test_run"
    /\ UNCHANGED <<tmvars, launch_config, config, cwd, weights, trainer, score, result>>

\* test, lines 71-72
TestRun ==
    /\ pc = "test_run"
    /\ calls' = Append(calls, CallTo("test",
                    [ckpt_path |-> Some(config.ckpt_path), weights |-> weights]))
    /\ result' = Some(Returned(None))
    /\ pc' = "done"
    /\ UNCHANGED <<tmvars, launch_config, config, cwd, weights, trainer, score>>

Next ==
    \/ TrainSeed
    \/ TrainResolveCkpt
    \/ TrainInstantiateTaskmodule
    \/ TrainPrepare
    \/ TrainInstantiateTrainer
    \/ TrainLogHyperparameters
    \/ TrainSaveTaskmodule
    \/ TrainFit
    \/ TrainMetric
    \/ TrainTest
    \/ TrainFinish
    \/ TrainSaveModel
    \/ TrainReturn
    \/ TestSeed
    \/ TestResolveCkpt
    \/ TestInstantiate
    \/ TestLogHyperparams
    \/ TestRun

Spec == Init /\ [][Next]_vars

\* ======================================================== task module claims
\* 1-based rank of label l among the labels of S, in Python's string order
Rank(l, S) == 1 + Cardinality({x \in S : StrLess(x, l)})
Prepared == labels # None
Injective(d) == \A i, j \in 1..Len(d) : d[i][2] = d[j][2] => i = j

\* C1: after Prepare over documents that each carry a label, "O" maps to 0 and
\* every other observed label maps to its 1-based rank among the sorted
\* observed labels other than "O".
C1_PrepareRanksNonO ==
    Prepared =>
        /\ DictGet(label_to_id, LabelO) = 0
        /\ \A l \in labels[1] \ {LabelO} :
             DictGet(label_to_id, l) = Rank(l, labels[1] \ {LabelO})

\* C2: for a non-empty batch, Collate does not raise; it returns the targets
\* of the encodings in order if every encoding has a target, and the absent
\* sentinel otherwise.
C2_CollateTargets ==
    last.op = "collate" =>
        /\ last.exc = ""
        /\ IF \A i \in 1..Len(last.arg) : last.arg[i].targets # None
           THEN /\ last.ret[2] # None
                /\ Len(last.ret[2][1]) = Len(last.arg)
                /\ \A i \in 1..Len(last.arg) : last.ret[2][1][i] = last.arg[i].targets[1]
           ELSE last.ret[2] = None

\* C6: after Prepare, EncodeTarget on a document labelled with an observed
\* label L returns label_to_id[L]; and a logits row whose single largest entry
\* is at index label_to_id[L] is decoded by UnbatchOutput and
\* CreateAnnotationsFromOutput into exactly one ("label", annotation) pair
\* whose label is L.
C6_RoundTrip ==
    Prepared =>
        /\ (/\ last.op = "encode_target"
            /\ last.arg.label # <<>>
            /\ last.arg.label[1].label \in labels[1])
           => /\ last.exc = ""
              /\ last.ret = DictGet(label_to_id, last.arg.label[1].label)
              /\ last.ret \in Nat
        /\ last.op = "create_annotations_from_output"
           => \A l \in labels[1] :
                LET k == DictGet(label_to_id, l) + 1
                    row == last.arg.logits
                IN  (k \in 1..Len(row) /\ \A j \in 1..Len(row) : j # k => row[j] < row[k])
                    => /\ Len(last.ret) = 1
                       /\ last.ret[1][1] = "label"
                       /\ last.ret[1][2].label = l

C6_Witness ==
    /\ labels = Some({LabelO, LabelCat})
    /\ last.op = "create_annotations_from_output"
    /\ last.arg.logits = <<0, 0, 1>>
    /\ DictGet(label_to_id, LabelCat) = 2
    /\ last.ret[1][2].label = LabelCat

\* C7: the configuration record holds the current label_to_id, and a task
\* module constructed from that record has the label_to_id and id_to_label of
\* the saved one.
C7_PersistenceRoundTrip ==
    last.op = "from_pretrained" =>
        /\ last.arg.label_to_id = Some(label_to_id)
        /\ last.ret.label_to_id = label_to_id
        /\ last.ret.id_to_label = id_to_label

C7_Witness ==
    /\ last.op = "from_pretrained"
    /\ hparams.label_to_id = Some(<<<<LabelCat, 1>>, <<LabelDog, 1>>>>)
    /\ labels = Some({LabelO, LabelCat, LabelDog})
    /\ last.ret.label_to_id = <<<<LabelO, 0>>, <<LabelCat, 2>>, <<LabelDog, 3>>>>

InverseVocabulary ==
    /\ Injective(label_to_id)
    /\ \A l \in DictKeys(label_to_id) : DictGet(id_to_label, DictGet(label_to_id, l)) = l
    /\ DictKeys(id_to_label) = DictValues(label_to_id)

\* C8 as stated: in every reachable state, whatever label_to_id argument the
\* constructor was given, the vocabulary is bijective and id_to_label is the
\* exact inverse of label_to_id.
C8_AlwaysInverse == InverseVocabulary

\* C8 amended: the vocabulary is bijective with id_to_label its exact inverse
\* in every state reached by Prepare, and after construction with no
\* label_to_id argument or an injective one; for every argument the keys of
\* id_to_label are exactly the ids in label_to_id.
C8_InverseWhenPreparedOrInjectiveArg ==
    /\ (Prepared \/ Injective(init_label_to_id(hparams.label_to_id))) => InverseVocabulary
    /\ DictKeys(id_to_label) = DictValues(label_to_id)

C8_Witness ==
    /\ hparams.label_to_id = Some(<<<<LabelCat, 1>>, <<LabelDog, 1>>>>)
    /\ labels = Some({LabelA, LabelO, LabelDog})
    /\ id_to_label = <<<<1, LabelA>>, <<0, LabelO>>, <<3, LabelDog>>>>

\* ======================================================= orchestrator claims
IsTrain == launch_config.entry = "train"
CallsTo(fn) == {i \in 1..Len(calls) : calls[i].fn = fn}
SavesOf(what) == {i \in CallsTo("save_pretrained") : calls[i].args.what = what}
TrainFlag == TruthyBool(launch_config.train)
TestFlag == TruthyBool(launch_config.test)
FastDevRun == TruthyBool(launch_config.fast_dev_run)

\* C3: the directory at which Train persists the task module is the configured
\* save_dir when that is absolute, and otherwise the original launch directory
\* joined with it once.
C3_TaskmoduleSavedAtNormalizedDir ==
    \A i \in SavesOf("taskmodule") :
        calls[i].args.location =
            IF isabs(launch_config.save_dir)
            THEN launch_config.save_dir
            ELSE OriginalCwd \o launch_config.save_dir

AfterMetricCheck == {"train_test", "train_finish", "train_save_model", "train_return"}

\* C4: when optimized_metric names a metric that the trainer's callback
\* metrics do not hold after the training step, Train ends by raising and
\* returns no score: it never goes on to the evaluation step.
C4_MissingMetricRaises ==
    (/\ IsTrain
     /\ launch_config.optimized_metric # None
     /\ launch_config.optimized_metric[1] # ""
     /\ ~DictHas(trainer.callback_metrics, launch_config.optimized_metric[1]))
    => /\ pc \notin AfterMetricCheck
       /\ pc = "done" => (result # None /\ result[1].kind = "raise" /\ result[1].value = None)
       /\ CallsTo("test") = {}

C4_Witness ==
    /\ IsTrain
    /\ pc = "done"
    /\ launch_config.optimized_metric = Some("val/acc")
    /\ TrainFlag
    /\ CallsTo("fit") # {}
    /\ trainer.callback_metrics = <<>>
    /\ result = Some(Raised("Exception"))

\* C5: an evaluation run by Train gets the checkpoint reference "best" exactly
\* when the train flag is set and fast_dev_run is not; otherwise the reference
\* is absent and the weights evaluated are those the model holds. Train runs
\* the evaluation when the test flag is set, and never when it is not.
C5_TestCheckpoint ==
    IsTrain =>
        /\ \A i \in CallsTo("test") :
             /\ TestFlag
             /\ calls[i].args.ckpt_path = Some("best") <=> (TrainFlag /\ ~FastDevRun)
             /\ calls[i].args.ckpt_path # Some("best") =>
                  /\ calls[i].args.ckpt_path = None
                  /\ calls[i].args.weights = IF CallsTo("fit") # {} THEN weights ELSE 0
             /\ calls[i].args.ckpt_path = Some("best") =>
                  calls[i].args.weights = trainer.best_model_path[1]
        /\ (TestFlag /\ pc \in {"train_finish", "train_save_model", "train_return"})
             => Cardinality(CallsTo("test")) = 1

C5_Witness ==
    /\ IsTrain
    /\ TrainFlag
    /\ launch_config.fast_dev_run = Some(TRUE)
    /\ pc = "train_finish"
    /\ \E i \in CallsTo("test") : calls[i].args.ckpt_path = None /\ calls[i].args.weights = 1

\* C9: in Train and in Test, once the first step is over the generators have
\* been seeded, with per-worker seeding and before anything is instantiated,
\* if and only if the configuration holds a seed, whatever its value.
C9_SeededIffSeedPresent ==
    pc \notin {"idle", "train_seed", "test_seed"} =>
        IF launch_config.seed # None
        THEN /\ CallsTo("seed_everything") = {1}
             /\ calls[1].args = [seed |-> launch_config.seed[1], workers |-> TRUE]
        ELSE CallsTo("seed_everything") = {}

\* C10: a run of Train that returns has persisted, after the run finalizer,
\* the weights of the trainer's best checkpoint if the train flag is set and
\* fast_dev_run is not, and has persisted no model otherwise.
C10_BestModelPersisted ==
    (IsTrain /\ result # None /\ result[1].kind = "return") =>
        IF TrainFlag /\ ~FastDevRun
        THEN \E i \in SavesOf("model") :
               /\ \E j \in CallsTo("finish") : j < i
               /\ calls[i].args.content = trainer.best_model_path[1]
        ELSE SavesOf("model") = {}

AfterPersistence ==
    {"train_fit", "train_metric", "train_test", "train_finish", "train_save_model",
     "train_return"}

\* the labels of the documents of the configured train split
TrainSplitLabels ==
    {launch_config.train_split[i].label[1].label : i \in 1..Len(launch_config.train_split)}

\* C11: whenever Train has persisted the task module, Prepare on the
\* train_split documents came before it and the training loop after it, the
\* persisted label_to_id is the task module's label_to_id, unchanged since
\* Prepare built it from the labels of those documents ("O" at 0, the others
\* at their rank among the observed labels); and Train persists the task
\* module once it is past that step, whatever the train flag.
C11_PersistedVocabularyIsPrepared ==
    IsTrain =>
        /\ \A i \in SavesOf("taskmodule") :
             /\ \E j \in CallsTo("prepare") :
                  j < i /\ calls[j].args.documents = launch_config.train_split
             /\ \A k \in CallsTo("fit") : i < k
             /\ calls[i].args.content.label_to_id = Some(label_to_id)
             /\ labels = Some(TrainSplitLabels)
             /\ DictKeys(label_to_id) = TrainSplitLabels \cup {LabelO}
             /\ Len(label_to_id) = Cardinality(DictKeys(label_to_id))
             /\ DictGet(label_to_id, LabelO) = 0
             /\ \A l \in TrainSplitLabels \ {LabelO} :
                  DictGet(label_to_id, l) = Rank(l, TrainSplitLabels)
        /\ pc \in AfterPersistence => Cardinality(SavesOf("taskmodule")) = 1
        /\ CallsTo("fit") # {} => SavesOf("taskmodule") # {}

C11_Witness ==
    /\ IsTrain
    /\ ~TrainFlag
    /\ pc = "done"
    /\ result # None /\ result[1].kind = "return"
    /\ CallsTo("fit") = {}
    /\ \E i \in SavesOf("taskmodule") :
         calls[i].args.content.label_to_id =
             Some(<<<<LabelO, 0>>, <<LabelCat, 2>>, <<LabelDog, 3>>>>)
====
